---- MODULE Spec2Model ----
(***************************************************************************)
(* Model of the HTTP request wrapper of part4_error_handling.py:           *)
(* safe_api_request (one GET, every failure turned into an Outcome         *)
(* dictionary) and safe_api_request_with_retry (a bounded retry loop       *)
(* around it).                                                             *)
(*                                                                         *)
(* The network is the environment: each requests.get either raises one of  *)
(* the exception classes of requests.exceptions or returns a response with *)
(* a status code and a body.  The body is text; response.json() is         *)
(* modelled by the decoding algorithm of json.loads on a small alphabet.   *)
(***************************************************************************)
EXTENDS Integers, Sequences, FiniteSets, TLC

(***************************************************************************)
(* Bounds of the model.                                                    *)
(***************************************************************************)
MaxBodyLen == 3
MaxRetries == 3
MaxTimeout == 2

(***************************************************************************)
(* Program constants.                                                      *)
(***************************************************************************)
DefaultTimeout == 5
DefaultRetries == 3

Timeouts == (1..MaxTimeout) \cup {DefaultTimeout}
RetryCounts == (0..MaxRetries) \cup {DefaultRetries}
Urls == {"https://jsonplaceholder.typicode.com/posts/1",
         "https://this-domain-does-not-exist-12345.com/api"}

(***************************************************************************)
(* Response bodies: text over a three character alphabet, enough for JSON  *)
(* integers and (nested) arrays as well as for every kind of syntax error  *)
(* the decoder reports.                                                    *)
(***************************************************************************)
Chars == {"[", "]", "7"}
Digits == {"7"}

BodiesOfLen(n) == [1..n -> Chars]
Bodies == UNION {BodiesOfLen(n) : n \in 0..MaxBodyLen}

StatusCodes == {200, 204, 299, 304, 399, 400, 404, 499, 500, 599}

(***************************************************************************)
(* JSON values produced by the decoder: an int or a list.                  *)
(***************************************************************************)
JsonInt(n) == [t |-> "int", n |-> n, a |-> <<>>]
JsonList(elems) == [t |-> "list", n |-> 0, a |-> elems]
NoValue == [t |-> "none", n |-> 0, a |-> <<>>]

\* s[idx:idx+1] of Python, idx counted from 0
CharAt(s, idx) == IF idx < Len(s) THEN s[idx + 1] ELSE ""

DigitVal(c) == IF c = "7" THEN 7 ELSE 0

RECURSIVE NumberEnd(_, _)
\* end of the longest run of digits starting at idx (NUMBER_RE.match)
NumberEnd(s, idx) ==
    IF CharAt(s, idx) \in Digits THEN NumberEnd(s, idx + 1) ELSE idx

RECURSIVE IntOf(_)
\* int(digits)
IntOf(ds) ==
    IF ds = <<>> THEN 0
    ELSE 10 * IntOf(SubSeq(ds, 1, Len(ds) - 1)) + DigitVal(ds[Len(ds)])

DecodeOk(val, end) == [ok |-> TRUE, val |-> val, end |-> end, msg |-> "", pos |-> 0]
DecodeErr(msg, pos) == [ok |-> FALSE, val |-> NoValue, end |-> 0, msg |-> msg, pos |-> pos]

RECURSIVE ScanOnce(_, _)
\* json.scanner scan_once with JSONArray inlined; StopIteration(idx) is
\* reported by every caller as "Expecting value" at idx
ScanOnce(s, idx) ==
    LET nextchar == CharAt(s, idx) IN
    IF nextchar = "[" THEN
        IF CharAt(s, idx + 1) = "]" THEN DecodeOk(JsonList(<<>>), idx + 2)
        ELSE LET r == ScanOnce(s, idx + 1) IN
             IF ~r.ok THEN r
             ELSE IF CharAt(s, r.end) = "]"
                  THEN DecodeOk(JsonList(<<r.val>>), r.end + 1)
                  ELSE DecodeErr("Expecting ',' delimiter", r.end)
    ELSE IF nextchar \in Digits THEN
        LET e == NumberEnd(s, idx) IN
        DecodeOk(JsonInt(IntOf(SubSeq(s, idx + 1, e))), e)
    ELSE DecodeErr("Expecting value", idx)

\* json.loads: one value, then nothing but the end of the text
Loads(s) ==
    LET r == ScanOnce(s, 0) IN
    IF ~r.ok THEN r
    ELSE IF r.end # Len(s) THEN DecodeErr("Extra data", r.end)
    ELSE r

\* str() of the JSONDecodeError raised for a one-line document
DecodeErrStr(r) ==
    r.msg \o ": line 1 column " \o ToString(r.pos + 1)
          \o " (char " \o ToString(r.pos) \o ")"

(***************************************************************************)
(* Exceptions.  TransportExceptions are the classes requests.get raises;   *)
(* HTTPError comes from raise_for_status and JSONDecodeError from          *)
(* response.json().  Ancestors gives the classes an except clause matches. *)
(***************************************************************************)
TransportExceptions ==
    {"ConnectionError", "ConnectTimeout", "ReadTimeout", "SSLError",
     "TooManyRedirects", "MissingSchema", "ChunkedEncodingError"}

Ancestors(cls) ==
    CASE cls = "ConnectionError" -> {"ConnectionError", "RequestException"}
      [] cls = "ConnectTimeout" ->
            {"ConnectTimeout", "ConnectionError", "Timeout", "RequestException"}
      [] cls = "ReadTimeout" -> {"ReadTimeout", "Timeout", "RequestException"}
      [] cls = "SSLError" -> {"SSLError", "ConnectionError", "RequestException"}
      [] cls = "TooManyRedirects" -> {"TooManyRedirects", "RequestException"}
      [] cls = "MissingSchema" -> {"MissingSchema", "RequestException", "ValueError"}
      [] cls = "ChunkedEncodingError" -> {"ChunkedEncodingError", "RequestException"}
      [] cls = "HTTPError" -> {"HTTPError", "RequestException"}
      [] cls = "JSONDecodeError" ->
            {"JSONDecodeError", "InvalidJSONError", "RequestException", "ValueError"}
      [] OTHER -> {cls}

\* str(e) of an exception raised by requests.get
ExcDetail(cls, url) ==
    CASE cls = "ConnectionError" -> "Connection aborted."
      [] cls = "ConnectTimeout" -> "Connection to host timed out."
      [] cls = "ReadTimeout" -> "Read timed out."
      [] cls = "SSLError" -> "certificate verify failed"
      [] cls = "TooManyRedirects" -> "Exceeded 30 redirects."
      [] cls = "MissingSchema" -> "Invalid URL '" \o url \o "': No scheme supplied."
      [] cls = "ChunkedEncodingError" -> "Connection broken: IncompleteRead"
      [] OTHER -> cls

(***************************************************************************)
(* What one requests.get can do.                                           *)
(***************************************************************************)
Response(status, body) ==
    [kind |-> "response", status |-> status, body |-> body, exc |-> "none"]
Raises(cls) ==
    [kind |-> "exception", status |-> 0, body |-> <<>>, exc |-> cls]

TransportResults ==
    {Response(st, b) : st \in StatusCodes, b \in Bodies}
        \cup {Raises(c) : c \in TransportExceptions}

\* response.raise_for_status(): HTTPError for client and server errors
RaisesForStatus(status) == 400 <= status /\ status < 600

(***************************************************************************)
(* Outcome dictionaries and log records.                                   *)
(***************************************************************************)
SuccessBad(data) == [success |-> TRUE, data |-> NoValue]

Success(data) == [success |-> TRUE, data |-> data]

FailureBad(msg) == [success |-> FALSE, error |-> msg, data |-> NoValue]

Failure(msg) == [success |-> FALSE, error |-> msg]

\* no dictionary was returned
NoOutcome == [none |-> TRUE]

LogLine(level, msg) == [level |-> level, msg |-> msg]

\* the try block without the raise_for_status call
TryBlockBad(url, timeout, tr) ==
    IF tr.kind = "exception" THEN
        [raised |-> tr.exc, detail |-> ExcDetail(tr.exc, url), status |-> 0,
         log |-> <<>>, data |-> NoValue, parsed |-> FALSE]
    ELSE LET r == Loads(tr.body)
             ok == <<LogLine("INFO", "API request successful")>> IN
         IF r.ok THEN
            [raised |-> "none", detail |-> "", status |-> tr.status,
             log |-> ok, data |-> r.val, parsed |-> TRUE]
         ELSE
            [raised |-> "JSONDecodeError", detail |-> DecodeErrStr(r),
             status |-> tr.status, log |-> ok, data |-> NoValue, parsed |-> TRUE]

(***************************************************************************)
(* The body of the try block of safe_api_request.  raised is the class of  *)
(* the exception that leaves the block, or "none" when the return          *)
(* statement is reached.                                                   *)
(***************************************************************************)
TryBlock(url, timeout, tr) ==
    IF tr.kind = "exception" THEN
        [raised |-> tr.exc, detail |-> ExcDetail(tr.exc, url), status |-> 0,
         log |-> <<>>, data |-> NoValue, parsed |-> FALSE]
    ELSE IF RaisesForStatus(tr.status) THEN
        [raised |-> "HTTPError", detail |-> "HTTPError", status |-> tr.status,
         log |-> <<>>, data |-> NoValue, parsed |-> FALSE]
    ELSE LET r == Loads(tr.body)
             ok == <<LogLine("INFO", "API request successful")>> IN
         IF r.ok THEN
            [raised |-> "none", detail |-> "", status |-> tr.status,
             log |-> ok, data |-> r.val, parsed |-> TRUE]
         ELSE
            [raised |-> "JSONDecodeError", detail |-> DecodeErrStr(r),
             status |-> tr.status, log |-> ok, data |-> NoValue, parsed |-> TRUE]

HandlersBad == <<"ConnectionError", "Timeout", "HTTPError">>

\* the except clauses of safe_api_request, in source order
Handlers == <<"ConnectionError", "Timeout", "HTTPError", "RequestException">>

\* index of the first except clause that matches cls, 0 when none does
Catch(cls) ==
    LET m == {i \in 1..Len(Handlers) : Handlers[i] \in Ancestors(cls)} IN
    IF m = {} THEN 0 ELSE CHOOSE i \in m : \A j \in m : i <= j

HandlerLog(h, t) ==
    CASE h = "ConnectionError" -> LogLine("ERROR", "Connection failed")
      [] h = "Timeout" -> LogLine("WARNING", "Request timed out")
      [] h = "HTTPError" -> LogLine("ERROR", "HTTP Error: " \o ToString(t.status))
      [] h = "RequestException" -> LogLine("ERROR", "Request failed: " \o t.detail)

HandlerOutcome(h, timeout, t) ==
    CASE h = "ConnectionError" -> Failure("Connection failed. Check your internet.")
      [] h = "Timeout" ->
            Failure("Request timed out after " \o ToString(timeout) \o " seconds.")
      [] h = "HTTPError" -> Failure("HTTP Error: " \o ToString(t.status))
      [] h = "RequestException" -> Failure("Request failed: " \o t.detail)

(***************************************************************************)
(* safe_api_request(url, timeout) when requests.get answers tr.            *)
(* outcome is the returned dictionary, branch the place that returned it,  *)
(* escaped the class of an exception no except clause caught, log the      *)
(* records the call emitted, parsed whether response.json() was called.    *)
(***************************************************************************)
SafeApiRequest(url, timeout, tr) ==
    LET t == TryBlock(url, timeout, tr)
        pre == <<LogLine("INFO", "Calling API: " \o url)>>
        i == Catch(t.raised)
    IN  IF t.raised = "none" THEN
            [outcome |-> Success(t.data), branch |-> "try", escaped |-> "none",
             log |-> pre \o t.log, parsed |-> t.parsed]
        ELSE IF i = 0 THEN
            [outcome |-> NoOutcome, branch |-> "none", escaped |-> t.raised,
             log |-> pre \o t.log, parsed |-> t.parsed]
        ELSE
            [outcome |-> HandlerOutcome(Handlers[i], timeout, t),
             branch |-> Handlers[i], escaped |-> "none",
             log |-> pre \o t.log \o <<HandlerLog(Handlers[i], t)>>,
             parsed |-> t.parsed]

NoCall ==
    [outcome |-> NoOutcome, branch |-> "none", escaped |-> "none",
     log |-> <<>>, parsed |-> FALSE]

(***************************************************************************)
(* State.                                                                  *)
(*   pc       where the caller is: "idle", inside the retry loop ("loop",  *)
(*            "sleep"), or back from the call ("done", "repeated")         *)
(*   mode     the function called: "single" is safe_api_request,           *)
(*            "retry" is safe_api_request_with_retry                       *)
(*   url, timeout, retries   the arguments                                 *)
(*   attempt  the loop variable of the retry loop                          *)
(*   calls    number of safe_api_request calls made for this call          *)
(*   sleeps   number of time.sleep(1) calls made for this call             *)
(*   resp     what requests.get did in the safe_api_request just made      *)
(*   last     the safe_api_request just made: outcome, branch, log, ...    *)
(*   result   the local variable result of the retry loop                  *)
(*   seen     the branches the attempts of this retry call ended in        *)
(*   first    outcome of the first of two calls on the same response       *)
(*   ret      the dictionary returned to the caller                        *)
(***************************************************************************)
VARIABLES pc, mode, url, timeout, retries, attempt, calls, sleeps,
          resp, last, result, seen, first, ret

vars == <<pc, mode, url, timeout, retries, attempt, calls, sleeps,
          resp, last, result, seen, first, ret>>

SleepSeconds == 1

NoResponse == Raises("none")

Init ==
    /\ pc = "idle"
    /\ mode = "none"
    /\ url = ""
    /\ timeout = DefaultTimeout
    /\ retries = DefaultRetries
    /\ attempt = 0
    /\ calls = 0
    /\ sleeps = 0
    /\ resp = NoResponse
    /\ last = NoCall
    /\ result = NoOutcome
    /\ seen = {}
    /\ first = NoOutcome
    /\ ret = NoOutcome

\* result = safe_api_request(url, timeout)
CallSingle ==
    /\ pc = "idle"
    /\ \E u \in Urls, t \in Timeouts, tr \in TransportResults :
          /\ url' = u
          /\ timeout' = t
          /\ resp' = tr
          /\ last' = SafeApiRequest(u, t, tr)
          /\ ret' = last'.outcome
    /\ mode' = "single"
    /\ calls' = 1
    /\ pc' = "done"
    /\ UNCHANGED <<retries, attempt, sleeps, result, seen, first>>

\* the same call once more, the transport answering as before
Repeat ==
    /\ pc = "done"
    /\ mode = "single"
    /\ first' = ret
    /\ last' = SafeApiRequest(url, timeout, resp)
    /\ ret' = last'.outcome
    /\ calls' = calls + 1
    /\ pc' = "repeated"
    /\ UNCHANGED <<mode, url, timeout, retries, attempt, sleeps, resp, result, seen>>

\* safe_api_request_with_retry(url, timeout, retries) is entered
CallRetry ==
    /\ pc = "idle"
    /\ \E u \in Urls, t \in Timeouts, n \in RetryCounts :
          /\ url' = u
          /\ timeout' = t
          /\ retries' = n
    /\ mode' = "retry"
    /\ attempt' = 1
    /\ pc' = "loop"
    /\ UNCHANGED <<calls, sleeps, resp, last, result, seen, first, ret>>

AttemptBad ==
    /\ pc = "loop"
    /\ attempt <= retries
    /\ \E tr \in TransportResults :
          /\ resp' = tr
          /\ last' = SafeApiRequest(url, timeout, tr)
    /\ result' = last'.outcome
    /\ calls' = calls + 1
    /\ seen' = seen \cup {last'.branch}
    /\ IF last'.escaped # "none"
       THEN pc' = "done" /\ ret' = NoOutcome
       ELSE pc' = "sleep" /\ ret' = ret
    /\ UNCHANGED <<mode, url, timeout, retries, attempt, sleeps, first>>

\* one iteration of the loop up to the return or the sleep
Attempt ==
    /\ pc = "loop"
    /\ attempt <= retries
    /\ \E tr \in TransportResults :
          /\ resp' = tr
          /\ last' = SafeApiRequest(url, timeout, tr)
    /\ result' = last'.outcome
    /\ calls' = calls + 1
    /\ seen' = seen \cup {last'.branch}
    /\ IF last'.escaped # "none"
       THEN pc' = "done" /\ ret' = NoOutcome
       ELSE IF last'.outcome.success
       THEN pc' = "done" /\ ret' = last'.outcome
       ELSE pc' = "sleep" /\ ret' = ret
    /\ UNCHANGED <<mode, url, timeout, retries, attempt, sleeps, first>>

\* time.sleep(1), then the loop takes the next value of range(1, retries + 1);
\* the safe_api_request that was observed is over
Sleep ==
    /\ pc = "sleep"
    /\ sleeps' = sleeps + 1
    /\ attempt' = attempt + 1
    /\ resp' = NoResponse
    /\ last' = NoCall
    /\ pc' = "loop"
    /\ UNCHANGED <<mode, url, timeout, retries, calls, result, seen, first, ret>>

ExhaustedBad ==
    /\ pc = "loop"
    /\ attempt > retries
    /\ ret' = IF calls > 0 THEN result
              ELSE Failure("Request failed after multiple retries")
    /\ pc' = "done"
    /\ UNCHANGED <<mode, url, timeout, retries, attempt, calls, sleeps,
                   resp, last, result, seen, first>>

\* the range is used up: the return after the loop
Exhausted ==
    /\ pc = "loop"
    /\ attempt > retries
    /\ ret' = Failure("Request failed after multiple retries")
    /\ pc' = "done"
    /\ UNCHANGED <<mode, url, timeout, retries, attempt, calls, sleeps,
                   resp, last, result, seen, first>>

\* the caller has consumed the outcome; nothing is kept between calls
Finish ==
    /\ pc \in {"done", "repeated"}
    /\ pc' = "idle"
    /\ mode' = "none"
    /\ url' = ""
    /\ timeout' = DefaultTimeout
    /\ retries' = DefaultRetries
    /\ attempt' = 0
    /\ calls' = 0
    /\ sleeps' = 0
    /\ resp' = NoResponse
    /\ last' = NoCall
    /\ result' = NoOutcome
    /\ seen' = {}
    /\ first' = NoOutcome
    /\ ret' = NoOutcome

Next ==
    \/ CallSingle
    \/ Repeat
    \/ CallRetry
    \/ Attempt
    \/ Sleep
    \/ Exhausted
    \/ Finish

Spec == Init /\ [][Next]_vars

TypeOK ==
    /\ pc \in {"idle", "loop", "sleep", "done", "repeated"}
    /\ mode \in {"none", "single", "retry"}
    /\ timeout \in Timeouts
    /\ retries \in RetryCounts
    /\ attempt \in 0..(MaxRetries + 1)
    /\ calls \in 0..(MaxRetries + 2)
    /\ sleeps \in 0..(MaxRetries + 1)

(***************************************************************************)
(* Vocabulary of the properties.                                           *)
(***************************************************************************)
\* a safe_api_request call has just returned (or raised)
JustCalled == resp # NoResponse

IsSuccess(o) == "success" \in DOMAIN o /\ o.success = TRUE
IsFailure(o) == "success" \in DOMAIN o /\ o.success = FALSE

ExhaustedMessage == "Request failed after multiple retries"

\* the grammar of the JSON texts over Chars, stated without the decoder
RECURSIVE IsJsonText(_)
IsJsonText(s) ==
    /\ Len(s) > 0
    /\ \/ \A i \in 1..Len(s) : s[i] \in Digits
       \/ /\ Len(s) >= 2
          /\ s[1] = "["
          /\ s[Len(s)] = "]"
          /\ Len(s) = 2 \/ IsJsonText(SubSeq(s, 2, Len(s) - 1))

RECURSIVE DigitsOf(_)
DigitsOf(n) ==
    IF n < 10 THEN <<ToString(n)>> ELSE DigitsOf(n \div 10) \o <<ToString(n % 10)>>

\* the text a JSON value is written as
RECURSIVE Dumps(_)
Dumps(v) ==
    CASE v.t = "int" -> DigitsOf(v.n)
      [] v.t = "list" ->
            <<"[">> \o (IF v.a = <<>> THEN <<>> ELSE Dumps(v.a[1])) \o <<"]">>
      [] OTHER -> <<"n", "u", "l", "l">>

\* every error message safe_api_request(u, t) can return
AttemptOutcomes(u, t) == {SafeApiRequest(u, t, tr).outcome : tr \in TransportResults}
AttemptMessages(u, t) == {o.error : o \in {x \in AttemptOutcomes(u, t) : IsFailure(x)}}

(***************************************************************************)
(* C1: safe_api_request never lets a fault escape: whatever requests.get   *)
(* does (response with parseable or unparseable body, error status,        *)
(* connection failure, connect or read timeout, any other requests fault), *)
(* the call returns a dictionary with a boolean 'success' key and no       *)
(* exception reaches the caller.                                           *)
(***************************************************************************)
C1_NeverRaises ==
    JustCalled =>
        /\ last.escaped = "none"
        /\ "success" \in DOMAIN last.outcome
        /\ last.outcome.success \in BOOLEAN
        /\ (mode = "single" => ret = last.outcome)

C1_Witness ==
    /\ JustCalled
    /\ resp.kind = "response"
    /\ resp.status = 200
    /\ ~IsJsonText(resp.body)
    /\ IsFailure(last.outcome)
    /\ last.escaped = "none"

(***************************************************************************)
(* C2: safe_api_request_with_retry(url, timeout, n) calls safe_api_request *)
(* at most n times, the k-th call being attempt k, and returns at once on  *)
(* the first successful attempt with that attempt's Outcome: once it has   *)
(* returned no further attempt is made.                                    *)
(***************************************************************************)
C2_AtMostNFirstSuccess ==
    /\ [](mode = "retry" => calls <= retries)
    /\ [][(mode = "retry" /\ calls' = calls + 1) =>
             /\ calls' = attempt
             /\ (IsSuccess(result') => pc' = "done" /\ ret' = result')]_vars
    /\ [][(mode = "retry" /\ pc = "done") => calls' = 0]_vars

C2_Witness ==
    /\ mode = "retry"
    /\ pc = "done"
    /\ retries = 3
    /\ calls = 2
    /\ sleeps = 1
    /\ IsSuccess(ret)

(***************************************************************************)
(* C3: with maxAttempts = n >= 1 the retry loop sleeps at most n - 1       *)
(* times (at most n - 1 seconds of deliberate delay): it pauses between    *)
(* attempts only, never after the final attempt has failed.                *)
(***************************************************************************)
C3_SleepsOnlyBetweenAttempts ==
    (mode = "retry" /\ retries >= 1) =>
        /\ sleeps <= retries - 1
        /\ sleeps * SleepSeconds <= retries - 1

(***************************************************************************)
(* C4: whenever the request times out, in the connect phase or in the read *)
(* phase, safe_api_request returns the failure 'Request timed out after    *)
(* <timeout> seconds.' with the timeout it was given.                      *)
(***************************************************************************)
C4_TimeoutClassified ==
    (JustCalled /\ resp.kind = "exception" /\ resp.exc \in {"ConnectTimeout", "ReadTimeout"}) =>
        last.outcome =
            [success |-> FALSE,
             error |-> "Request timed out after " \o ToString(timeout) \o " seconds."]

(***************************************************************************)
(* C5: a response with a non-error status whose body is not JSON gives a   *)
(* failure of its own category: it is not returned by the branch of the    *)
(* connection, timeout, HTTP status or other-request failures and its      *)
(* message is none of theirs.                                              *)
(***************************************************************************)
C5_MalformedIsDistinct ==
    (JustCalled /\ resp.kind = "response" /\ resp.status < 400
                /\ ~IsJsonText(resp.body)) =>
        /\ IsFailure(last.outcome)
        /\ last.branch \notin
              {"ConnectionError", "Timeout", "HTTPError", "RequestException"}

(***************************************************************************)
(* C6: when all n attempts of safe_api_request_with_retry have failed it   *)
(* returns the failure 'Request failed after multiple retries', whatever   *)
(* the kinds of the failures; that message is no per-attempt message.      *)
(***************************************************************************)
C6_ExhaustedFixedMessage ==
    (mode = "retry" /\ pc = "done" /\ calls = retries /\ ~IsSuccess(result)) =>
        /\ ret = [success |-> FALSE, error |-> ExhaustedMessage]
        /\ ret.error \notin AttemptMessages(url, timeout)

C6_Witness ==
    /\ mode = "retry"
    /\ pc = "done"
    /\ retries = 3
    /\ calls = 3
    /\ {"ConnectionError", "Timeout", "HTTPError"} \subseteq seen
    /\ ret = [success |-> FALSE, error |-> ExhaustedMessage]

(***************************************************************************)
(* C7: for a response with a 4xx or 5xx status safe_api_request returns    *)
(* the failure 'HTTP Error: <status_code>' with the response's status      *)
(* code; it never returns success and never parses the body.               *)
(***************************************************************************)
C7_HttpStatusError ==
    (JustCalled /\ resp.kind = "response" /\ resp.status \in 400..599) =>
        /\ last.outcome =
              [success |-> FALSE, error |-> "HTTP Error: " \o ToString(resp.status)]
        /\ ~last.parsed

C7_Witness ==
    /\ JustCalled
    /\ resp.kind = "response"
    /\ resp.status = 404
    /\ IsJsonText(resp.body)
    /\ last.outcome = [success |-> FALSE, error |-> "HTTP Error: 404"]

(***************************************************************************)
(* C8: every Outcome returned by safe_api_request or by                    *)
(* safe_api_request_with_retry has exactly one variant: success = True     *)
(* comes with 'data' and without 'error', success = False with 'error'     *)
(* and without 'data'.                                                     *)
(***************************************************************************)
OneVariant(o) ==
    \/ o = NoOutcome
    \/ /\ "success" \in DOMAIN o
       /\ o.success \in BOOLEAN
       /\ o.success => DOMAIN o = {"success", "data"}
       /\ ~o.success => DOMAIN o = {"success", "error"}

C8_ExactlyOneVariant ==
    /\ OneVariant(last.outcome)
    /\ OneVariant(result)
    /\ OneVariant(ret)
    /\ (pc \in {"done", "repeated"} => ret # NoOutcome)

C8_Witness ==
    /\ mode = "retry"
    /\ pc = "done"
    /\ calls = 2
    /\ "HTTPError" \in seen
    /\ IsSuccess(ret)
    /\ DOMAIN ret = {"success", "data"}

C10_LogMatchesOutcome ==
    JustCalled =>
        /\ Len(last.log) = 2
        /\ last.log[1] = LogLine("INFO", "Calling API: " \o url)
        /\ last.log[2].level =
              IF IsSuccess(last.outcome) THEN "INFO"
              ELSE IF last.branch = "Timeout" THEN "WARNING" ELSE "ERROR"
        /\ (IsFailure(last.outcome) =>
               \A i \in 1..Len(last.log) :
                   last.log[i] # LogLine("INFO", "API request successful"))

====
